---- MODULE Spec2Model ----
(***************************************************************************)
(* Model of the AISC capacity-check engine of SOMS (soms/checks/AISC.py).  *)
(*                                                                         *)
(* The engine is a set of vectorised numeric functions over numpy arrays.  *)
(* Numbers are modelled as decimal floating-point values [m, e] (value     *)
(* m * 10^e) whose mantissa is rounded to Mant after every operation, the  *)
(* way float64 rounds to 53 bits after every operation.  Arrays are        *)
(* sequences of such numbers; a Python scalar is an array of length 1,     *)
(* which numpy broadcasts against any other length.                        *)
(***************************************************************************)
EXTENDS Integers, Sequences, FiniteSets, TLC

(***************************************************************************)
(* Floating-point numbers                                                  *)
(***************************************************************************)

\* Mantissas are kept below Mant (four significant decimal digits).
Mant == 10000

\* Exponent that marks an infinite value (numpy's inf).
InfExp == 9999

RECURSIVE Pow10(_)
Pow10(k) == IF k <= 0 THEN 1 ELSE 10 * Pow10(k - 1)

Abs(x) == IF x < 0 THEN -x ELSE x

Sgn(x) == IF x < 0 THEN -1 ELSE IF x = 0 THEN 0 ELSE 1

RECURSIVE NDigits(_)
NDigits(x) == IF x < 10 THEN 1 ELSE 1 + NDigits(x \div 10)

\* Mantissa q (after dropping digits) at exponent e: a carry to Mant moves
\* one decade up.
FltCarry(s, q, e) ==
    IF q = Mant THEN [m |-> s * (Mant \div 10), e |-> e + 1] ELSE [m |-> s * q, e |-> e]

\* Sign s and magnitude a at exponent e, with sh digits too many (sh > 0,
\* rounded half away from zero) or -sh digits too few (padded with zeros).
FltShift(s, a, e, sh) ==
    IF sh <= 0
    THEN [m |-> s * a * Pow10(-sh), e |-> e + sh]
    ELSE FltCarry(s, (a + Pow10(sh) \div 2) \div Pow10(sh), e + sh)

\* The float nearest to m * 10^e (round half away from zero), normalised so
\* that Mant \div 10 <= |m| < Mant, or m = 0 and e = 0.
Flt(m, e) ==
    IF m = 0 THEN [m |-> 0, e |-> 0]
    ELSE FltShift(Sgn(m), Abs(m), e, NDigits(Abs(m)) - (NDigits(Mant) - 1))

Zero == Flt(0, 0)
One  == Flt(1, 0)
Inf  == [m |-> Mant \div 10, e |-> InfExp]

IsInf(a) == a.e >= InfExp

FNeg(a) == [m |-> -a.m, e |-> a.e]

FAbs(a) == [m |-> Abs(a.m), e |-> a.e]

\* hi + lo for hi.e >= lo.e.  An operand more than five decades below the
\* other is below half a unit in the last place of the sum.
FAddAligned(hi, lo) ==
    IF hi.e - lo.e > 5 THEN hi
    ELSE Flt(hi.m * Pow10(hi.e - lo.e) + lo.m, lo.e)

\* a + b, rounded.
FAdd(a, b) ==
    IF a.m = 0 THEN b
    ELSE IF b.m = 0 THEN a
    ELSE IF IsInf(a) THEN a
    ELSE IF IsInf(b) THEN b
    ELSE IF a.e >= b.e THEN FAddAligned(a, b) ELSE FAddAligned(b, a)

FSub(a, b) == FAdd(a, FNeg(b))

FMul(a, b) ==
    IF a.m = 0 \/ b.m = 0 THEN Zero
    ELSE IF IsInf(a) \/ IsInf(b)
         THEN [m |-> Sgn(a.m) * Sgn(b.m) * (Mant \div 10), e |-> InfExp]
    ELSE Flt(a.m * b.m, a.e + b.e)

\* a / b, rounded; x / 0 is numpy's signed inf.
FDiv(a, b) ==
    IF b.m = 0 THEN [m |-> Sgn(a.m) * (Mant \div 10), e |-> InfExp]
    ELSE IF a.m = 0 \/ IsInf(b) THEN Zero
    ELSE IF IsInf(a) THEN [m |-> Sgn(a.m) * Sgn(b.m) * (Mant \div 10), e |-> InfExp]
    ELSE Flt(Sgn(a.m) * Sgn(b.m) * ((Abs(a.m) * Pow10(5)) \div Abs(b.m)), a.e - b.e - 5)

\* -1, 0, 1 as a < b, a = b, a > b.
FCmp(a, b) ==
    IF IsInf(a) /\ IsInf(b) THEN Sgn(a.m - b.m)
    ELSE Sgn(FSub(a, b).m)

FLt(a, b) == FCmp(a, b) < 0
FLe(a, b) == FCmp(a, b) <= 0
FGt(a, b) == FCmp(a, b) > 0
FGe(a, b) == FCmp(a, b) >= 0

FMin(a, b) == IF FLe(a, b) THEN a ELSE b

RECURSIVE ISqrtIn(_, _, _)
ISqrtIn(n, lo, hi) ==
    IF lo >= hi THEN lo
    ELSE LET mid == (lo + hi + 1) \div 2
         IN  IF mid * mid <= n THEN ISqrtIn(n, mid, hi) ELSE ISqrtIn(n, lo, mid - 1)

\* Largest k with k * k <= n.
ISqrt(n) == ISqrtIn(n, 0, 46340)

\* Square root of a non-negative float; exact on exact squares.  The
\* mantissa is scaled so that the exponent left is even.
FSqrt(a) ==
    IF a.m <= 0 THEN Zero
    ELSE IF IsInf(a) THEN a
    ELSE Flt(ISqrt(a.m * Pow10(4 + (a.e % 2))), (a.e - 4 - (a.e % 2)) \div 2)

FSq(a) == FMul(a, a)

RECURSIVE PowInt(_, _)
PowInt(b, n) ==
    IF n = 0 THEN One
    ELSE IF n % 2 = 0
         THEN FSq(PowInt(b, n \div 2))
         ELSE FMul(b, PowInt(b, n - 1))

\* b ^ (f / D) for 0 <= f < D, from the binary digits of f / D: the k-th
\* digit contributes the 2^k-th root of b (r is the root of the digit).
RECURSIVE PowFrac(_, _, _, _)
RECURSIVE PowFracDigit(_, _, _, _)
PowFracDigit(r, f, D, k) ==
    IF 2 * f >= D
    THEN FMul(r, PowFrac(r, 2 * f - D, D, k - 1))
    ELSE PowFrac(r, 2 * f, D, k - 1)

PowFrac(root, f, D, k) ==
    IF k = 0 \/ f = 0 THEN One ELSE PowFracDigit(FSqrt(root), f, D, k)

\* b ^ (m / D) for m >= 0.
PowRatio(b, m, D) == FMul(PowInt(b, m \div D), PowFrac(b, m % D, D, 12))

\* b ^ x for b > 0 and x >= 0: the integer part of x by repeated squaring,
\* the fractional part by repeated square roots.
FPow(b, x) ==
    IF x.m = 0 THEN One
    ELSE IF x.e >= 0
         THEN IF x.e > 5 THEN (IF FLt(b, One) THEN Zero ELSE IF b = One THEN One ELSE Inf)
              ELSE PowInt(b, x.m * Pow10(x.e))
    ELSE IF x.e < -9 THEN One
    ELSE PowRatio(b, x.m, Pow10(-x.e))

(***************************************************************************)
(* numpy arrays: sequences, with numpy's broadcasting of length-1 operands *)
(***************************************************************************)

\* A Python scalar, as the length-1 array numpy broadcasts.
Sc(x) == <<x>>

np_pi == Flt(3142, -3)

At(a, i) == IF Len(a) = 1 THEN a[1] ELSE a[i]

BLen(a, b) == IF Len(a) = 1 THEN Len(b) ELSE Len(a)

\* numpy raises ValueError unless the operand lengths are equal or 1.
Broadcastable(lens) == \A x \in lens, y \in lens : x = y \/ x = 1 \/ y = 1

\* Element-wise operations.  Each result is a new array holding its elements
\* (the concatenation with <<>> makes the elements computed once, as numpy
\* does, rather than on every later access).
VAdd(a, b) == [i \in 1..BLen(a, b) |-> FAdd(At(a, i), At(b, i))] \o <<>>
VSub(a, b) == [i \in 1..BLen(a, b) |-> FSub(At(a, i), At(b, i))] \o <<>>
VMul(a, b) == [i \in 1..BLen(a, b) |-> FMul(At(a, i), At(b, i))] \o <<>>
VDiv(a, b) == [i \in 1..BLen(a, b) |-> FDiv(At(a, i), At(b, i))] \o <<>>
VPow(a, b) == [i \in 1..BLen(a, b) |-> FPow(At(a, i), At(b, i))] \o <<>>
VSq(a)     == [i \in 1..Len(a) |-> FSq(a[i])] \o <<>>
VLt(a, b)  == [i \in 1..BLen(a, b) |-> FLt(At(a, i), At(b, i))] \o <<>>
VLe(a, b)  == [i \in 1..BLen(a, b) |-> FLe(At(a, i), At(b, i))] \o <<>>
VGt(a, b)  == [i \in 1..BLen(a, b) |-> FGt(At(a, i), At(b, i))] \o <<>>
VGe(a, b)  == [i \in 1..BLen(a, b) |-> FGe(At(a, i), At(b, i))] \o <<>>
VEq(a, b)  == [i \in 1..BLen(a, b) |-> At(a, i) = At(b, i)] \o <<>>
VOr(a, b)  == [i \in 1..BLen(a, b) |-> At(a, i) \/ At(b, i)] \o <<>>

np_minimum(a, b) == [i \in 1..BLen(a, b) |-> FMin(At(a, i), At(b, i))] \o <<>>
np_sqrt(a) == [i \in 1..Len(a) |-> FSqrt(a[i])] \o <<>>
np_abs(a)  == [i \in 1..Len(a) |-> FAbs(a[i])] \o <<>>
np_all(c)  == \A i \in 1..Len(c) : c[i]
np_any(c)  == \E i \in 1..Len(c) : c[i]

np_where(c, a, b) ==
    [i \in 1..BLen(c, IF Len(a) = 1 THEN b ELSE a) |->
        IF At(c, i) THEN At(a, i) ELSE At(b, i)] \o <<>>

\* Column `f` of a batch of member records, as one array.
Col(batch, f) == [i \in 1..Len(batch) |-> batch[i][f]] \o <<>>

(***************************************************************************)
(* The caller's memory and the call in progress                            *)
(***************************************************************************)

VARIABLES
    heap,      \* the arrays in memory, by object id (position)
    frame,     \* the call: [fn, arg], arg binding parameter names to object ids
    ret,       \* the outcome: [status, ref]; ref is the id of the returned array
    registry,  \* the module's __warningregistry__: the warnings already shown
    stderr     \* the warnings written during the call

vars == <<heap, frame, ret, registry, stderr>>

\* The data structures and the ETABS connector: a Joint, the value last
\* assigned to its restraint and what the assignment raised; an ETABS session
\* and what GetAreas returned.
VARIABLES
    joint,     \* the Joint: [x, y, z, name, restraint]
    assigned,  \* the value of the latest assignment to Joint.restraint
    raised,    \* the exception the latest assignment raised, or "none"
    session,   \* the ETABS object: [client, model, areas, areas_key_name]
    returned   \* what the latest call of GetAreas returned

jointVars == <<joint, assigned, raised>>

etabsVars == <<session, returned>>

allVars == <<vars, jointVars, etabsVars>>

Pending == [status |-> "pending", ref |-> 0]

Raise(h, exc) == [status |-> exc, heap |-> h, ref |-> 0]

\* A function returns a freshly computed array: a new object.
Return(h, v) == [status |-> "ok", heap |-> Append(h, v), ref |-> Len(h) + 1]

\* A mutated allocation that hands back the object of the first argument.
abs_inplace(h, r) == [heap |-> [h EXCEPT ![r] = np_abs(h[r])], ref |-> r]

\* Pr = np.abs(Pr): np.abs allocates its result and the local name Pr is
\* rebound to it; the caller's array is not written.
abs_rebind(h, r) == [heap |-> Append(h, np_abs(h[r])), ref |-> Len(h) + 1]

\* A mutated sign check that only looks at the first entry.
SameSign_first(Pr) == IF FGt(Pr[1], Zero) THEN TRUE ELSE FLt(Pr[1], Zero)

\* np.all(Pr > 0) if Pr[0] > 0 else np.all(Pr < 0)
SameSign(Pr) ==
    IF FGt(Pr[1], Zero) THEN np_all(VGt(Pr, Sc(Zero))) ELSE np_all(VLt(Pr, Sc(Zero)))

(***************************************************************************)
(* P_delta                                                                 *)
(***************************************************************************)

\* Pe1 = np.pi**2 * 0.8 * tao_b * E * I / (Lb)**2
P_delta_Pe1(tao_b, E, I, Lb) ==
    VDiv(VMul(VMul(VMul(VMul(Sc(FMul(np_pi, np_pi)), Sc(Flt(8, -1))), tao_b), E), I),
         VSq(Lb))

\* B1 = Cm / (1 - alpha * Pr/Pe1)
P_delta_B1(Cm, alpha, Pr, Pe1) == VDiv(Cm, VSub(Sc(One), VDiv(VMul(alpha, Pr), Pe1)))

\* Lines 50-54, in memory h with the local name Pr bound to the array Pr.
P_delta_compute(h, Pr, I, Lb, E, tao_b, Cm, alpha) ==
    IF ~Broadcastable({Len(Pr), Len(I), Len(Lb), Len(E), Len(tao_b), Len(Cm), Len(alpha)})
    THEN Raise(h, "ValueError")
    ELSE Return(h, P_delta_B1(Cm, alpha, Pr, P_delta_Pe1(tao_b, E, I, Lb)))

\* After line 47: Pr is the rebound object rb.ref, the other names are the
\* caller's objects.
P_delta_rebound(rb, f) ==
    P_delta_compute(rb.heap, rb.heap[rb.ref], rb.heap[f.I], rb.heap[f.Lb], rb.heap[f.E],
                    rb.heap[f.tao_b], rb.heap[f.Cm], rb.heap[f.alpha])

P_delta(h, f) ==
    IF Len(h[f.Pr]) = 0 THEN Raise(h, "IndexError")
    ELSE IF ~SameSign(h[f.Pr]) THEN Raise(h, "AssertionError")
    ELSE P_delta_rebound(abs_rebind(h, f.Pr), f)

(***************************************************************************)
(* H1_interaction                                                          *)
(***************************************************************************)

\* A mutated branch test that sends the boundary value to the other branch.
H1_select_strict(ratio) == VGt(ratio, Sc(Flt(2, -1)))

\* Pr/Pc >= 0.2
H1_select(ratio) == VGe(ratio, Sc(Flt(2, -1)))

\* M_total_int = np.abs(Mrx)/Mcx + np.abs(Mry)/Mcy
H1_M_total_int(Mrx, Mcx, Mry, Mcy) == VAdd(VDiv(np_abs(Mrx), Mcx), VDiv(np_abs(Mry), Mcy))

\* DCR = np.where(Pr/Pc >= 0.2, Pr/Pc + 8/9 * M_total_int, Pr/Pc/2 + M_total_int),
\* ratio being Pr/Pc
H1_DCR(ratio, M_total_int) ==
    np_where(H1_select(ratio),
             VAdd(ratio, VMul(Sc(FDiv(Flt(8, 0), Flt(9, 0))), M_total_int)),
             VAdd(VDiv(ratio, Sc(Flt(2, 0))), M_total_int))

\* Lines 506-514, in memory h with the local name Pr bound to the array Pr.
H1_compute(h, Pr, Pc, Mrx, Mcx, Mry, Mcy) ==
    IF ~Broadcastable({Len(Pr), Len(Pc), Len(Mrx), Len(Mcx), Len(Mry), Len(Mcy)})
    THEN Raise(h, "ValueError")
    ELSE Return(h, H1_DCR(VDiv(Pr, Pc), H1_M_total_int(Mrx, Mcx, Mry, Mcy)))

H1_rebound(rb, f) ==
    H1_compute(rb.heap, rb.heap[rb.ref], rb.heap[f.Pc], rb.heap[f.Mrx], rb.heap[f.Mcx],
               rb.heap[f.Mry], rb.heap[f.Mcy])

H1_interaction(h, f) ==
    IF Len(h[f.Pr]) = 0 THEN Raise(h, "IndexError")
    ELSE IF ~SameSign(h[f.Pr]) THEN Raise(h, "AssertionError")
    ELSE H1_rebound(abs_rebind(h, f.Pr), f)

(***************************************************************************)
(* E3_compression                                                          *)
(***************************************************************************)

\* A mutated radius that takes the smallest radius of the whole batch.
E3_r_min_batch(rx, ry) ==
    [i \in 1..BLen(rx, ry) |->
        CHOOSE x \in {(rx \o ry)[k] : k \in 1..Len(rx \o ry)} :
            \A k \in 1..Len(rx \o ry) : FLe(x, (rx \o ry)[k])] \o <<>>

\* r_min = np.minimum(rx, ry)
E3_r_min(rx, ry) == np_minimum(rx, ry)

\* Fe = np.pi**2 * E / (Lb / r_min)**2
E3_Fe(E, Lb, r_min) == VDiv(VMul(Sc(FMul(np_pi, np_pi)), E), VSq(VDiv(Lb, r_min)))

\* A mutated branch test that swaps the two branches.
E3_inelastic_swapped(ratio) == VGt(ratio, Sc(Flt(225, -2)))

\* Fy / Fe <= 2.25
E3_inelastic(ratio) == VLe(ratio, Sc(Flt(225, -2)))

\* Fcr = np.where(Fy / Fe <= 2.25, 0.658**(Fy / Fe) * Fy, 0.877 * Fe),
\* ratio being Fy / Fe
E3_Fcr(Fy, Fe, ratio) ==
    np_where(E3_inelastic(ratio),
             VMul(VPow(Sc(Flt(658, -3)), ratio), Fy),
             VMul(Sc(Flt(877, -3)), Fe))

\* Fcr from Fe (lines 93-95)
E3_Fcr_of(Fy, Fe) == E3_Fcr(Fy, Fe, VDiv(Fy, Fe))

\* Lines 89-95: r_min, Fe and Fcr
E3_stress(rx, ry, Lb, Fy, E) == E3_Fcr_of(Fy, E3_Fe(E, Lb, E3_r_min(rx, ry)))

E3_compression(h, f) ==
    LET A  == h[f.A]
        rx == h[f.rx]
        ry == h[f.ry]
        Lb == h[f.Lb]
        Fy == h[f.Fy]
        E  == h[f.E]
    IN  IF ~Broadcastable({Len(A), Len(rx), Len(ry), Len(Lb), Len(Fy), Len(E)})
        THEN Raise(h, "ValueError")
        ELSE Return(h, VMul(VMul(Sc(Flt(9, -1)), E3_stress(rx, ry, Lb, Fy, E)), A))

(***************************************************************************)
(* F2_flexure_major                                                        *)
(***************************************************************************)

F2_PropKeys == <<"ho", "J", "Sx", "Zx", "ry", "rts">>

\* props[key].astype('float64'): a new float array
astype_float64(a) == [i \in 1..Len(a) |-> Flt(a[i].m, a[i].e)] \o <<>>

\* Lines 163-177: with a props bundle the local names section, ho, J, Sx, Zx,
\* ry, rts (Iy, Cw when a channel is present, else 0.0 and 1.0) are bound to
\* the bundle's entries (f binds the bundle's key 'Type' as section_type).
\* Without a bundle the parameters keep the caller's arrays and the local
\* name `section` is never bound: the parameter is called section_type.
F2_unpack(h, f) ==
    IF f.props # 0
    THEN LET h1 == h \o [k \in 1..Len(F2_PropKeys) |->
                            astype_float64(h[f[F2_PropKeys[k]]])]
             hasC == np_any(VEq(h[f.section_type], Sc("C")))
             h2 == IF hasC
                   THEN h1 \o <<astype_float64(h[f.Iy]), astype_float64(h[f.Cw])>>
                   ELSE h1
         IN  [heap |-> h2, bound |-> TRUE, section |-> h[f.section_type],
              ho |-> h1[Len(h) + 1], J |-> h1[Len(h) + 2], Sx |-> h1[Len(h) + 3],
              Zx |-> h1[Len(h) + 4], ry |-> h1[Len(h) + 5], rts |-> h1[Len(h) + 6],
              Iy |-> IF hasC THEN h2[Len(h1) + 1] ELSE Sc(Zero),
              Cw |-> IF hasC THEN h2[Len(h1) + 2] ELSE Sc(One)]
    ELSE [heap |-> h, bound |-> FALSE, section |-> <<>>,
          ho |-> h[f.ho], J |-> h[f.J], Sx |-> h[f.Sx], Zx |-> h[f.Zx],
          ry |-> h[f.ry], rts |-> h[f.rts], Iy |-> h[f.Iy], Cw |-> h[f.Cw]]

\* c = np.where(section == "W", 1, ho / 2 * np.sqrt(Iy/Cw))
F2_c(section, ho, Iy, Cw) ==
    np_where(VEq(section, Sc("W")), Sc(One),
             VMul(VDiv(ho, Sc(Flt(2, 0))), np_sqrt(VDiv(Iy, Cw))))

\* Lp = 1.76 * ry * np.sqrt(E / Fy)
F2_Lp(ry, Fy, E) == VMul(VMul(Sc(Flt(176, -2)), ry), np_sqrt(VDiv(E, Fy)))

\* Lr (AISC F2-6) with a == J*c / (Sx*ho)
F2_Lr_of(rts, a, Fy, E) ==
    VMul(VDiv(VMul(VMul(Sc(Flt(195, -2)), rts), E), VMul(Sc(Flt(7, -1)), Fy)),
         np_sqrt(VAdd(a,
                      np_sqrt(VAdd(VSq(a),
                                   VMul(Sc(Flt(676, -2)),
                                        VSq(VDiv(VMul(Sc(Flt(7, -1)), Fy), E))))))))

F2_Lr(rts, J, c, Sx, ho, Fy, E) == F2_Lr_of(rts, VDiv(VMul(J, c), VMul(Sx, ho)), Fy, E)

\* A mutated elastic moment that is not divided by (Lb/rts)**2.
F2_Mn_elastic_undivided(Cb, Lb, rts, J, c, Sx, ho, E) ==
    VMul(VMul(VMul(VMul(Cb, Sc(FMul(np_pi, np_pi))), E),
              np_sqrt(VAdd(Sc(One),
                           VMul(VDiv(VMul(Sc(Flt(78, -3)), VMul(J, c)), VMul(Sx, ho)),
                                VSq(VDiv(Lb, rts)))))),
         Sx)

\* Mn_elastic (AISC F2-3, F2-4)
F2_Mn_elastic(Cb, Lb, rts, J, c, Sx, ho, E) ==
    VMul(VMul(VDiv(VMul(VMul(Cb, Sc(FMul(np_pi, np_pi))), E), VSq(VDiv(Lb, rts))),
              np_sqrt(VAdd(Sc(One),
                           VMul(VDiv(VMul(Sc(Flt(78, -3)), VMul(J, c)), VMul(Sx, ho)),
                                VSq(VDiv(Lb, rts)))))),
         Sx)

\* A mutated inelastic moment without the factor Cb.
F2_Mn_inelastic_noCb(Cb, Mp, Fy, Sx, Lb, Lp, Lr) ==
    VSub(Mp, VDiv(VMul(VSub(Mp, VMul(VMul(Sc(Flt(7, -1)), Fy), Sx)), VSub(Lb, Lp)),
                  VSub(Lr, Lp)))

\* Mn_inelastic (AISC F2-2)
F2_Mn_inelastic(Cb, Mp, Fy, Sx, Lb, Lp, Lr) ==
    VMul(Cb,
         VSub(Mp, VDiv(VMul(VSub(Mp, VMul(VMul(Sc(Flt(7, -1)), Fy), Sx)), VSub(Lb, Lp)),
                       VSub(Lr, Lp))))

\* Mn of lines 207-213
F2_Mn(Lb, Mp, Lp, Lr, Mn_elastic, Mn_inelastic) ==
    np_where(VLe(Lb, Lp),
             Mp,
             np_where(VGt(Lb, Lr),
                      np_minimum(Mp, Mn_elastic),
                      np_minimum(Mp, Mn_inelastic)))

\* Lines 200-213 once Mp, Lp and Lr are computed.
F2_Mn_zones(u, c, Lb, Fy, Cb, E, Mp, Lp, Lr) ==
    F2_Mn(Lb, Mp, Lp, Lr,
          F2_Mn_elastic(Cb, Lb, u.rts, u.J, c, u.Sx, u.ho, E),
          F2_Mn_inelastic(Cb, Mp, Fy, u.Sx, Lb, Lp, Lr))

\* Lines 186-215 once c is computed.
F2_phiMnx(u, c, Lb, Fy, Cb, E) ==
    VMul(Sc(Flt(9, -1)),
         F2_Mn_zones(u, c, Lb, Fy, Cb, E,
                     VMul(Fy, u.Zx),
                     F2_Lp(u.ry, Fy, E),
                     F2_Lr(u.rts, u.J, c, u.Sx, u.ho, Fy, E)))

\* Lines 180-215, on the names bound by lines 163-177.
F2_body(u, Lb, Fy, Cb, E) ==
    IF ~u.bound THEN Raise(u.heap, "UnboundLocalError")
    ELSE IF ~np_all(VOr(VEq(u.section, Sc("W")), VEq(u.section, Sc("C"))))
         THEN Raise(u.heap, "AssertionError")
    ELSE IF ~Broadcastable({Len(Lb), Len(Fy), Len(Cb), Len(E), Len(u.section),
                            Len(u.ho), Len(u.J), Len(u.Sx), Len(u.Zx), Len(u.ry),
                            Len(u.rts), Len(u.Iy), Len(u.Cw)})
         THEN Raise(u.heap, "ValueError")
    ELSE Return(u.heap,
                F2_phiMnx(u, F2_c(u.section, u.ho, u.Iy, u.Cw), Lb, Fy, Cb, E))

F2_flexure_major(h, f) ==
    F2_body(F2_unpack(h, f), h[f.Lb], h[f.Fy], h[f.Cb], h[f.E])

(***************************************************************************)
(* F6_flexure_minor                                                        *)
(***************************************************************************)

\* lambda_pf = 0.38 * np.sqrt(E / Fy)
F6_lambda_pf(Fy, E) == VMul(Sc(Flt(38, -2)), np_sqrt(VDiv(E, Fy)))

\* lambda_rf = np.sqrt(E / Fy)
F6_lambda_rf(Fy, E) == np_sqrt(VDiv(E, Fy))

\* Mp = np.minimum(Fy*Zy, 1.6*Fy*Sy)
F6_Mp(Sy, Zy, Fy) == np_minimum(VMul(Fy, Zy), VMul(VMul(Sc(Flt(16, -1)), Fy), Sy))

\* Mn of lines 269-276, Mn_elastic being (0.69*E*Sy) / lambda_f**2
F6_Mn(Sy, lambda_f, Fy, E, lambda_pf, lambda_rf, Mp) ==
    np_where(VLe(lambda_f, lambda_pf),
             Mp,
             np_where(VGe(lambda_f, lambda_rf),
                      VDiv(VMul(VMul(Sc(Flt(69, -2)), E), Sy), VSq(lambda_f)),
                      VSub(Mp,
                           VDiv(VMul(VSub(Mp, VMul(VMul(Sc(Flt(7, -1)), Fy), Sy)),
                                     VSub(lambda_f, lambda_pf)),
                                VSub(lambda_rf, lambda_pf)))))

F6_flexure_minor(h, f) ==
    LET Sy       == h[f.Sy]
        Zy       == h[f.Zy]
        lambda_f == h[f.lambda_f]
        Fy       == h[f.Fy]
        E        == h[f.E]
    IN  IF ~Broadcastable({Len(Sy), Len(Zy), Len(lambda_f), Len(Fy), Len(E)})
        THEN Raise(h, "ValueError")
        ELSE Return(h, VMul(Sc(Flt(9, -1)),
                            F6_Mn(Sy, lambda_f, Fy, E, F6_lambda_pf(Fy, E),
                                  F6_lambda_rf(Fy, E), F6_Mp(Sy, Zy, Fy))))

(***************************************************************************)
(* F8_flexure_round_hss                                                    *)
(***************************************************************************)

\* A mutated applicability test that admits the limit itself.
F8_applies_le(D, t, Fy, E) ==
    np_all(VLe(VDiv(D, t), VDiv(VMul(Sc(Flt(45, -2)), E), Fy)))

\* np.all(D/t < 0.45*E/Fy)
F8_applies(D, t, Fy, E) ==
    np_all(VLt(VDiv(D, t), VDiv(VMul(Sc(Flt(45, -2)), E), Fy)))

\* is_compact = D/t < lambda_p
F8_is_compact(D, t, lambda_p) == VLt(VDiv(D, t), lambda_p)

\* lambda_p = 0.07 * E/Fy
F8_lambda_p(Fy, E) == VDiv(VMul(Sc(Flt(7, -2)), E), Fy)

\* lambda_r = 0.31 * E/Fy
F8_lambda_r(Fy, E) == VDiv(VMul(Sc(Flt(31, -2)), E), Fy)

\* is_slender = D/t >= lambda_r
F8_is_slender(D, t, lambda_r) == VGe(VDiv(D, t), lambda_r)

\* Mn_noncompact = (0.021*E/(D/t) + Fy) * S
F8_Mn_noncompact(D, t, S, Fy, E) ==
    VMul(VAdd(VDiv(VMul(Sc(Flt(21, -3)), E), VDiv(D, t)), Fy), S)

\* Fcr = 0.33*E/(D/t); Mn_slender = Fcr * S
F8_Mn_slender(D, t, S, E) == VMul(VDiv(VMul(Sc(Flt(33, -2)), E), VDiv(D, t)), S)

\* Mn of lines 333-339
F8_Mn(D, t, S, Fy, E, Mp) ==
    np_where(F8_is_compact(D, t, F8_lambda_p(Fy, E)),
             Mp,
             np_where(F8_is_slender(D, t, F8_lambda_r(Fy, E)),
                      np_minimum(Mp, F8_Mn_slender(D, t, S, E)),
                      np_minimum(Mp, F8_Mn_noncompact(D, t, S, Fy, E))))

F8_flexure_round_hss(h, f) ==
    LET D  == h[f.D]
        t  == h[f.t]
        S  == h[f.S]
        Z  == h[f.Z]
        Fy == h[f.Fy]
        E  == h[f.E]
    IN  IF ~Broadcastable({Len(D), Len(t), Len(S), Len(Z), Len(Fy), Len(E)})
        THEN Raise(h, "ValueError")
        ELSE IF ~F8_applies(D, t, Fy, E) THEN Raise(h, "AssertionError")
        ELSE Return(h, VMul(Sc(Flt(9, -1)), F8_Mn(D, t, S, Fy, E, VMul(Fy, Z))))

(***************************************************************************)
(* F9_flexure_t_2l                                                         *)
(***************************************************************************)

F9_message == "F9 provisions might not be correctly implemented."

\* warnings.warn(message, UserWarning) under Python's default filters: the
\* first warning of a location is written to stderr and entered in the
\* module's __warningregistry__; later ones from that location are dropped.
\* It never raises.
warnings_warn(reg, err, message) ==
    IF message \in reg
    THEN [registry |-> reg, stderr |-> err]
    ELSE [registry |-> reg \cup {message}, stderr |-> Append(err, message)]

\* 1. Yielding (AISC F9-2, F9-3)
F9_Mp(stem_tension, Sx, Zx, Fy) ==
    np_where(stem_tension,
             np_minimum(VMul(Fy, Zx), VMul(VMul(Sc(Flt(16, -1)), Fy), Sx)),
             np_minimum(VMul(Fy, Zx), VMul(Fy, Sx)))

\* B = np.where(stem_tension, 1, -1) * 2.3 * (d / Lb) * np.sqrt(Iy / J)
F9_B(stem_tension, d, Lb, Iy, J) ==
    VMul(VMul(VMul(np_where(stem_tension, Sc(One), Sc(FNeg(One))), Sc(Flt(23, -1))),
              VDiv(d, Lb)),
         np_sqrt(VDiv(Iy, J)))

\* Mcr = np.pi * np.sqrt(E * Iy * G * J)/Lb * (B + np.sqrt(1 + B**2))
F9_Mcr(B, Lb, Iy, J, E, G) ==
    VMul(VDiv(VMul(Sc(np_pi), np_sqrt(VMul(VMul(VMul(E, Iy), G), J))), Lb),
         VAdd(B, np_sqrt(VAdd(Sc(One), VSq(B)))))

\* lambda_pf = 0.38 * np.sqrt(E / Fy)
F9_lambda_pf(Fy, E) == VMul(Sc(Flt(38, -2)), np_sqrt(VDiv(E, Fy)))

\* lambda_rf = np.sqrt(E / Fy)
F9_lambda_rf(Fy, E) == np_sqrt(VDiv(E, Fy))

\* 3. Flange local buckling of tees (lines 430-444), S_xc being Iy / y
F9_Mn_flb(Mp, Sx, S_xc, lambda_f, lambda_pf, lambda_rf, Fy, E) ==
    np_where(VLe(lambda_f, lambda_pf),
             Sc(Inf),
             np_where(VGe(lambda_f, lambda_rf),
                      VDiv(VMul(VMul(Sc(Flt(7, -1)), E), S_xc), VSq(lambda_f)),
                      np_minimum(VSub(Mp,
                                      VDiv(VMul(VSub(Mp,
                                                     VMul(VMul(Sc(Flt(7, -1)), Fy), S_xc)),
                                                VSub(lambda_f, lambda_pf)),
                                           VSub(lambda_rf, lambda_pf))),
                                 VMul(VMul(Sc(Flt(16, -1)), Fy), Sx))))

\* Fcr of lines 448-453
F9_Fcr(d_div_tw, Fy, E) ==
    np_where(VLe(d_div_tw, VMul(Sc(Flt(84, -2)), np_sqrt(VDiv(E, Fy)))),
             Fy,
             np_where(VLe(d_div_tw, VMul(Sc(Flt(103, -2)), np_sqrt(VDiv(E, Fy)))),
                      VMul(Fy,
                           VSub(Sc(Flt(255, -2)),
                                VMul(VMul(Sc(Flt(184, -2)), d_div_tw),
                                     np_sqrt(VDiv(Fy, E))))),
                      VDiv(VMul(Sc(Flt(69, -2)), E), VSq(d_div_tw))))

\* 4. Local buckling of tee stems in flexural compression
F9_Mn_slb(d, tw, Sx, Fy, E) == VMul(F9_Fcr(VDiv(d, tw), Fy, E), Sx)

\* Stem local buckling taken for every member, whatever the stem's stress.
F9_Mn_lb_any_stem(stem_tension, Mn_flb, Mn_slb) == np_minimum(Mn_flb, Mn_slb)

\* Mn_lb = np.minimum(Mn_flb, np.where(stem_tension, np.inf, Mn_slb))
F9_Mn_lb(stem_tension, Mn_flb, Mn_slb) ==
    np_minimum(Mn_flb, np_where(stem_tension, Sc(Inf), Mn_slb))

\* Lines 416-467 once Mp is computed.
F9_phiMn(stem_tension, d, tw, Sx, J, Iy, y, lambda_f, Lb, Fy, E, G, Mp) ==
    VMul(Sc(Flt(9, -1)),
         np_minimum(np_minimum(Mp, F9_Mcr(F9_B(stem_tension, d, Lb, Iy, J), Lb, Iy, J, E, G)),
                    F9_Mn_lb(stem_tension,
                             F9_Mn_flb(Mp, Sx, VDiv(Iy, y), lambda_f, F9_lambda_pf(Fy, E),
                                       F9_lambda_rf(Fy, E), Fy, E),
                             F9_Mn_slb(d, tw, Sx, Fy, E))))

\* The computation after the warning (lines 409-468).
F9_flexure_t_2l(h, f) ==
    LET stem_tension == h[f.stem_tension]
        d        == h[f.d]
        tw       == h[f.tw]
        Sx       == h[f.Sx]
        Zx       == h[f.Zx]
        J        == h[f.J]
        Iy       == h[f.Iy]
        y        == h[f.y]
        lambda_f == h[f.lambda_f]
        Lb       == h[f.Lb]
        Fy       == h[f.Fy]
        E        == h[f.E]
        G        == h[f.G]
    IN  IF ~Broadcastable({Len(stem_tension), Len(d), Len(tw), Len(Sx), Len(Zx), Len(J),
                           Len(Iy), Len(y), Len(lambda_f), Len(Lb), Len(Fy), Len(E),
                           Len(G)})
        THEN Raise(h, "ValueError")
        ELSE Return(h, F9_phiMn(stem_tension, d, tw, Sx, J, Iy, y, lambda_f, Lb, Fy, E, G,
                                F9_Mp(stem_tension, Sx, Zx, Fy)))

(***************************************************************************)
(* The caller: assembles the arrays of a batch, then invokes one check     *)
(***************************************************************************)

\* Largest batch a caller assembles.
MaxN == 2

Batches(Members) == UNION {[1..n -> Members] : n \in 1..MaxN}

\* The parameter names of a call, bound in order to the objects 1..Len(names).
Frame(fn, names) ==
    [fn |-> fn,
     arg |-> [p \in {names[k] : k \in 1..Len(names)} |->
                 CHOOSE k \in 1..Len(names) : names[k] = p]]

Idle ==
    /\ heap = <<>>
    /\ frame = [fn |-> "none", arg |-> <<>>]
    /\ ret = [status |-> "none", ref |-> 0]
    /\ registry = {}
    /\ stderr = <<>>

\* The caller takes the result (or the exception) and drops the arrays.
Discard ==
    /\ ret.status \notin {"none", "pending"}
    /\ heap' = <<>>
    /\ frame' = [fn |-> "none", arg |-> <<>>]
    /\ ret' = [status |-> "none", ref |-> 0]
    /\ stderr' = <<>>
    /\ UNCHANGED <<registry, jointVars, etabsVars>>

E_steel == Flt(29000, 0)

Fy_50 == Flt(50, 0)

P_delta_Members ==
    {[Pr |-> Flt(p, 0), I |-> Flt(100, 0), Lb |-> Flt(120, 0)] : p \in {100, 0, -50}}

Setup_P_delta ==
    \E b \in Batches(P_delta_Members), alpha \in {Flt(1, 0), Flt(16, -1)} :
        /\ ret.status = "none"
        /\ heap' = <<Col(b, "Pr"), Col(b, "I"), Col(b, "Lb"), Sc(E_steel), Sc(One), Sc(One),
                    Sc(alpha)>>
        /\ frame' = Frame("P_delta", <<"Pr", "I", "Lb", "E", "tao_b", "Cm", "alpha">>)
        /\ ret' = Pending
        /\ UNCHANGED <<registry, stderr, jointVars, etabsVars>>

Call_P_delta ==
    /\ ret.status = "pending"
    /\ frame.fn = "P_delta"
    /\ \E r \in {P_delta(heap, frame.arg)} :
           /\ heap' = r.heap
           /\ ret' = [status |-> r.status, ref |-> r.ref]
    /\ UNCHANGED <<frame, registry, stderr, jointVars, etabsVars>>

H1_Members ==
    {[Pr |-> Flt(x[1], 0), Pc |-> Flt(400, 0), Mrx |-> Flt(x[2], 0), Mcx |-> Flt(200, 0),
      Mry |-> Flt(10, 0), Mcy |-> Flt(80, 0)] :
        x \in {<<100, 50>>, <<80, -50>>, <<40, 50>>, <<0, 50>>, <<-50, -50>>, <<-100, 50>>}}

Setup_H1_interaction ==
    \E b \in Batches(H1_Members) :
        /\ ret.status = "none"
        /\ heap' = <<Col(b, "Pr"), Col(b, "Pc"), Col(b, "Mrx"), Col(b, "Mcx"), Col(b, "Mry"),
                    Col(b, "Mcy")>>
        /\ frame' = Frame("H1_interaction", <<"Pr", "Pc", "Mrx", "Mcx", "Mry", "Mcy">>)
        /\ ret' = Pending
        /\ UNCHANGED <<registry, stderr, jointVars, etabsVars>>

Call_H1_interaction ==
    /\ ret.status = "pending"
    /\ frame.fn = "H1_interaction"
    /\ \E r \in {H1_interaction(heap, frame.arg)} :
           /\ heap' = r.heap
           /\ ret' = [status |-> r.status, ref |-> r.ref]
    /\ UNCHANGED <<frame, registry, stderr, jointVars, etabsVars>>

E3_Members ==
    {[A |-> Flt(10, 0), rx |-> Flt(x[1], 0), ry |-> Flt(x[2], 0), Lb |-> Flt(x[3], 0)] :
        x \in {<<4, 2, 60>>, <<4, 2, 120>>, <<2, 4, 300>>, <<4, 3, 300>>}}

\* The batch b repeated or cut to n members: an array the caller built with
\* another length than the rest.
Resized(b, n) == [i \in 1..n |-> b[((i - 1) % Len(b)) + 1]] \o <<>>

\* The function takes whatever arrays the caller passes: rx may have the
\* length of the other arrays, length 1, or one entry more.
Setup_E3_compression ==
    \E b \in Batches(E3_Members), Fy \in {Flt(50, 0), Flt(36, 0)} :
      \E n \in {Len(b), 1, Len(b) + 1} :
        /\ ret.status = "none"
        /\ heap' = <<Col(b, "A"), Col(Resized(b, n), "rx"), Col(b, "ry"), Col(b, "Lb"),
                    Sc(Fy), Sc(E_steel)>>
        /\ frame' = Frame("E3_compression", <<"A", "rx", "ry", "Lb", "Fy", "E">>)
        /\ ret' = Pending
        /\ UNCHANGED <<registry, stderr, jointVars, etabsVars>>

Call_E3_compression ==
    /\ ret.status = "pending"
    /\ frame.fn = "E3_compression"
    /\ \E r \in {E3_compression(heap, frame.arg)} :
           /\ heap' = r.heap
           /\ ret' = [status |-> r.status, ref |-> r.ref]
    /\ UNCHANGED <<frame, registry, stderr, jointVars, etabsVars>>

F6_Members ==
    {[Sy |-> Flt(10, 0), Zy |-> Flt(x[1], 0), lambda_f |-> Flt(x[2], 0)] :
        x \in {<<15, 5>>, <<15, 15>>, <<17, 15>>, <<15, 30>>}}

Setup_F6_flexure_minor ==
    \E b \in Batches(F6_Members) :
        /\ ret.status = "none"
        /\ heap' = <<Col(b, "Sy"), Col(b, "Zy"), Col(b, "lambda_f"), Sc(Fy_50), Sc(E_steel)>>
        /\ frame' = Frame("F6_flexure_minor", <<"Sy", "Zy", "lambda_f", "Fy", "E">>)
        /\ ret' = Pending
        /\ UNCHANGED <<registry, stderr, jointVars, etabsVars>>

Call_F6_flexure_minor ==
    /\ ret.status = "pending"
    /\ frame.fn = "F6_flexure_minor"
    /\ \E r \in {F6_flexure_minor(heap, frame.arg)} :
           /\ heap' = r.heap
           /\ ret' = [status |-> r.status, ref |-> r.ref]
    /\ UNCHANGED <<frame, registry, stderr, jointVars, etabsVars>>

\* D/t of the members: compact, the compact limit 0.07 E/Fy, noncompact,
\* slender, the applicability limit 0.45 E/Fy, and beyond it (Fy = 50).
F8_Members ==
    {[D |-> Flt(x[1], -1), t |-> Flt(1, 0), S |-> Flt(10, 0), Z |-> Flt(x[2], 0)] :
        x \in {<<200, 12>>, <<406, 12>>, <<406, 20>>, <<1000, 12>>, <<2000, 12>>,
                <<2610, 12>>, <<3000, 12>>}}

Setup_F8_flexure_round_hss ==
    \E b \in Batches(F8_Members) :
        /\ ret.status = "none"
        /\ heap' = <<Col(b, "D"), Col(b, "t"), Col(b, "S"), Col(b, "Z"), Sc(Fy_50),
                    Sc(E_steel)>>
        /\ frame' = Frame("F8_flexure_round_hss", <<"D", "t", "S", "Z", "Fy", "E">>)
        /\ ret' = Pending
        /\ UNCHANGED <<registry, stderr, jointVars, etabsVars>>

Call_F8_flexure_round_hss ==
    /\ ret.status = "pending"
    /\ frame.fn = "F8_flexure_round_hss"
    /\ \E r \in {F8_flexure_round_hss(heap, frame.arg)} :
           /\ heap' = r.heap
           /\ ret' = [status |-> r.status, ref |-> r.ref]
    /\ UNCHANGED <<frame, registry, stderr, jointVars, etabsVars>>

\* A wide-flange section, a channel, and a tee (outside F2).
F2_Sections ==
    {[Type |-> "W", ho |-> Flt(133, -1), J |-> Flt(406, -2), Sx |-> Flt(143, 0),
      Zx |-> Flt(157, 0), ry |-> Flt(370, -2), rts |-> Flt(411, -2), Iy |-> Flt(362, 0),
      Cw |-> Flt(16000, 0)],
     [Type |-> "C", ho |-> Flt(1435, -2), J |-> Flt(265, -2), Sx |-> Flt(538, -1),
      Zx |-> Flt(685, -1), ry |-> Flt(865, -3), rts |-> Flt(117, -2), Iy |-> Flt(110, -1),
      Cw |-> Flt(492, 0)],
     [Type |-> "WT", ho |-> Flt(133, -1), J |-> Flt(406, -2), Sx |-> Flt(143, 0),
      Zx |-> Flt(157, 0), ry |-> Flt(370, -2), rts |-> Flt(411, -2), Iy |-> Flt(362, 0),
      Cw |-> Flt(16000, 0)]}

F2_LpOf(s) == F2_Lp(Sc(s.ry), Sc(Fy_50), Sc(E_steel))[1]

F2_LrOf(s) ==
    F2_Lr(Sc(s.rts), Sc(s.J), F2_c(Sc(s.Type), Sc(s.ho), Sc(s.Iy), Sc(s.Cw)), Sc(s.Sx),
          Sc(s.ho), Sc(Fy_50), Sc(E_steel))[1]

\* Unbraced lengths: in the plastic zone, at Lp, in the inelastic zone, at Lr
\* and in the elastic zone of the section.
F2_Lengths(s) ==
    IF s.Type = "W"
    THEN {Flt(100, 0), F2_LpOf(s), Flt(300, 0), F2_LrOf(s), Flt(520, 0), Flt(700, 0)}
    ELSE IF s.Type = "C" THEN {Flt(100, 0), Flt(300, 0)}
    ELSE {Flt(100, 0)}

F2_Members ==
    UNION {{[sec |-> s, Lb |-> L] : L \in F2_Lengths(s)} : s \in F2_Sections}

F2_Columns(b) ==
    <<[i \in 1..Len(b) |-> b[i].sec.Type], [i \in 1..Len(b) |-> b[i].sec.ho],
      [i \in 1..Len(b) |-> b[i].sec.J], [i \in 1..Len(b) |-> b[i].sec.Sx],
      [i \in 1..Len(b) |-> b[i].sec.Zx], [i \in 1..Len(b) |-> b[i].sec.ry],
      [i \in 1..Len(b) |-> b[i].sec.rts], [i \in 1..Len(b) |-> b[i].sec.Iy],
      [i \in 1..Len(b) |-> b[i].sec.Cw]>>

\* The caller passes the section either as a props bundle (props # 0, the
\* bundle's arrays bound under their keys) or as explicit arrays (props = None,
\* here 0).
Setup_F2_flexure_major ==
    \E b \in Batches(F2_Members), Cb \in {Flt(1, 0), Flt(15, -1)}, props \in {0, 1} :
        /\ ret.status = "none"
        /\ heap' = F2_Columns(b) \o <<Col(b, "Lb"), Sc(Fy_50), Sc(Cb), Sc(E_steel)>>
        /\ frame' = [Frame("F2_flexure_major",
                           <<"section_type", "ho", "J", "Sx", "Zx", "ry", "rts", "Iy",
                             "Cw", "Lb", "Fy", "Cb", "E">>)
                     EXCEPT !.arg = @ @@ ("props" :> props)]
        /\ ret' = Pending
        /\ UNCHANGED <<registry, stderr, jointVars, etabsVars>>

Call_F2_flexure_major ==
    /\ ret.status = "pending"
    /\ frame.fn = "F2_flexure_major"
    /\ \E r \in {F2_flexure_major(heap, frame.arg)} :
           /\ heap' = r.heap
           /\ ret' = [status |-> r.status, ref |-> r.ref]
    /\ UNCHANGED <<frame, registry, stderr, jointVars, etabsVars>>

G_steel == Flt(11200, 0)

\* Tees with the stem in tension or compression, a compact, noncompact or
\* slender flange, and a stocky or slender stem.
F9_Members ==
    {[shape |-> "T", stem_tension |-> x[1], d |-> Flt(10, 0), tw |-> Flt(x[2], -1),
      Sx |-> Flt(10, 0), Zx |-> Flt(18, 0), J |-> Flt(1, 0), Iy |-> Flt(50, 0), y |-> Flt(25, -1),
      lambda_f |-> Flt(x[3], 0), Lb |-> Flt(120, 0)] :
        x \in (BOOLEAN \X {5} \X {5, 15, 30}) \cup {<<FALSE, 3, 5>>}}

Setup_F9_flexure_t_2l ==
    \E b \in Batches(F9_Members) :
        /\ ret.status = "none"
        /\ heap' = <<Col(b, "shape"), Col(b, "stem_tension"), Col(b, "d"), Col(b, "tw"),
                    Col(b, "Sx"),
                    Col(b, "Zx"), Col(b, "J"), Col(b, "Iy"), Col(b, "y"),
                    Col(b, "lambda_f"), Col(b, "Lb"), Sc(Fy_50), Sc(E_steel),
                    Sc(G_steel)>>
        /\ frame' = Frame("F9_flexure_t_2l",
                          <<"shape", "stem_tension", "d", "tw", "Sx", "Zx", "J", "Iy", "y",
                            "lambda_f", "Lb", "Fy", "E", "G">>)
        /\ ret' = Pending
        /\ UNCHANGED <<registry, stderr, jointVars, etabsVars>>

\* The call warns first (lines 401-403), then computes.
Call_F9_flexure_t_2l ==
    /\ ret.status = "pending"
    /\ frame.fn = "F9_flexure_t_2l"
    /\ \E w \in {warnings_warn(registry, stderr, F9_message)} :
           /\ registry' = w.registry
           /\ stderr' = w.stderr
    /\ \E r \in {F9_flexure_t_2l(heap, frame.arg)} :
           /\ heap' = r.heap
           /\ ret' = [status |-> r.status, ref |-> r.ref]
    /\ UNCHANGED <<frame, jointVars, etabsVars>>

(***************************************************************************)
(* Joint (datastructures/joint.py)                                         *)
(***************************************************************************)

\* Python values: a type and, for a container, its items.
None == [type |-> "NoneType", items |-> <<>>]

PyInt(n) == [type |-> "int", items |-> <<n>>]

PyFloat(n) == [type |-> "float", items |-> <<n>>]

\* float(x): the number x as a float object
float(x) == PyFloat(x.items[1])

\* iter(value) succeeds for these types; the others raise TypeError.
Iterable == {"tuple", "list", "generator"}

\* len(value) and value[k] succeed for these; a generator raises TypeError.
Sized == {"tuple", "list"}

\* Stored as given: the object assigned is the object kept.
restraint_as_given(value) == value

\* [value[0], value[1], value[2], False, False, False]: a new list
restraint_padded(value) ==
    [type |-> "list",
     items |-> <<value.items[1], value.items[2], value.items[3], FALSE, FALSE, FALSE>>]

\* Joint.__init__: the attributes after construction
Joint__init__(x, y, z, name) ==
    [x |-> float(x), y |-> float(y), z |-> float(z), name |-> name, restraint |-> None]

\* The restraint setter.  Every exception of the body (TypeError of iter or
\* len, the ValueError of the else branch) leaves as ValueError.
restraint_setter(self, value) ==
    IF value.type \notin Iterable
    THEN [joint |-> self, raised |-> "ValueError"]
    ELSE IF value.type \notin Sized
    THEN [joint |-> self, raised |-> "ValueError"]
    ELSE IF Len(value.items) = 3
    THEN [joint |-> [self EXCEPT !.restraint = restraint_padded(value)], raised |-> "none"]
    ELSE IF Len(value.items) = 6
    THEN [joint |-> [self EXCEPT !.restraint = value], raised |-> "none"]
    ELSE [joint |-> self, raised |-> "ValueError"]

\* Longest vector a caller assigns.
MaxRestraintLen == 7

\* Vectors of booleans as ETABS' GetRestraint returns them (tuples) or as a
\* caller writes them (lists), a generator, and values that are no vectors.
\* The rotations, entries 4 and up, are restrained or free together.
RestraintVectors ==
    UNION {{v \in [1..n -> BOOLEAN] : \A k \in 5..n : v[k] = v[4]} : n \in 0..MaxRestraintLen}

RestraintValues ==
    {[type |-> t, items |-> v] : t \in Sized, v \in RestraintVectors}
    \cup {[type |-> "generator", items |-> <<TRUE, TRUE, TRUE>>], None, PyInt(1)}

Coordinates == {PyInt(0), PyFloat(3)}

JointInit ==
    /\ joint = Joint__init__(PyInt(0), PyInt(0), PyInt(0), "J1")
    /\ assigned = None
    /\ raised = "none"

\* pt = Joint(x, y, z, name=...)
New_Joint ==
    \E x \in Coordinates :
        /\ joint' = Joint__init__(x, x, x, "J1")
        /\ assigned' = None
        /\ raised' = "none"
        /\ UNCHANGED <<vars, etabsVars>>

\* pt.restraint = value
Set_restraint ==
    \E value \in RestraintValues :
        \E r \in {restraint_setter(joint, value)} :
            /\ joint' = r.joint
            /\ raised' = r.raised
            /\ assigned' = value
            /\ UNCHANGED <<vars, etabsVars>>

(***************************************************************************)
(* ETABS (connectors/etabs.py)                                             *)
(***************************************************************************)

Max(a, b) == IF a > b THEN a ELSE b

Min(a, b) == IF a < b THEN a ELSE b

\* A slice bound as Python reads it on a sequence of length n: counted from
\* the end when negative, and clipped to 0..n.
PyBound(k, n) == IF k < 0 THEN Max(k + n, 0) ELSE Min(k, n)

\* seq[a:b], the positions a, a+1, .. b-1 counted from 0
PySlice(seq, a, b) ==
    [j \in 1..Max(PyBound(b, Len(seq)) - PyBound(a, Len(seq)), 0) |->
        seq[PyBound(a, Len(seq)) + j]] \o <<>>

\* PointDelimiter[i], i counted from 0
GetAreas_delimiter(PointDelimiter, i) == PointDelimiter[i + 1]

\* The slice of area i starting on the previous area's last point.
GetAreas_bounds_overlapping(PointDelimiter, i) ==
    IF i = 0
    THEN <<0, GetAreas_delimiter(PointDelimiter, 0) + 1>>
    ELSE <<GetAreas_delimiter(PointDelimiter, i - 1),
           GetAreas_delimiter(PointDelimiter, i) + 1>>

\* a, b of lines 177-180
GetAreas_bounds(PointDelimiter, i) ==
    IF i = 0
    THEN <<0, GetAreas_delimiter(PointDelimiter, 0) + 1>>
    ELSE <<GetAreas_delimiter(PointDelimiter, i - 1) + 1,
           GetAreas_delimiter(PointDelimiter, i) + 1>>

\* Area.__init__ (datastructures/area.py)
Area__init__(points, name) == [name |-> name, points |-> points]

\* The inner loop (lines 181-184): one Joint per entry of the slice a:b
GetAreas_pts(m, a, b) ==
    [j \in 1..Len(PySlice(m.PointNames, a, b)) |->
        Joint__init__(PySlice(m.PointX, a, b)[j], PySlice(m.PointY, a, b)[j],
                      PySlice(m.PointZ, a, b)[j], PySlice(m.PointNames, a, b)[j])] \o <<>>

\* The dict of the outer loop (lines 173-188): key i for the i-th area
GetAreas_dict(m) ==
    [key \in 0..(m.NumberNames - 1) |->
        Area__init__(GetAreas_pts(m, GetAreas_bounds(m.PointDelimiter, key)[1],
                                  GetAreas_bounds(m.PointDelimiter, key)[2]),
                     m.MyName[key + 1])]

GetAreas_key_name(m) == [key \in 0..(m.NumberNames - 1) |-> m.MyName[key + 1]]

\* Most boundary points and most areas of a model.
MaxPoints == 4

MaxAreas == 3

\* What AreaObj.GetAllAreas() hands back for a model of P points whose areas
\* end at the point indices PointDelimiter.
GetAllAreas(P, PointDelimiter) ==
    [type |-> "SapModel",
     NumberNames |-> Len(PointDelimiter),
     MyName |-> [i \in 1..Len(PointDelimiter) |-> ToString(i)] \o <<>>,
     PointDelimiter |-> PointDelimiter,
     PointNames |-> [k \in 1..P |-> ToString(k)] \o <<>>,
     PointX |-> [k \in 1..P |-> PyFloat(k)] \o <<>>,
     PointY |-> [k \in 1..P |-> PyFloat(2 * k)] \o <<>>,
     PointZ |-> [k \in 1..P |-> PyFloat(0)] \o <<>>]

\* The models a running ETABS may hold: every delimiter is a point index.
Models ==
    UNION {{GetAllAreas(P, d) : d \in UNION {[1..N -> 0..(P - 1)] : N \in 0..MaxAreas}} :
              P \in 0..MaxPoints}

ETABSObject == [type |-> "ETABSObject", items |-> <<>>]

\* ETABS.__init__: no client, no model; areas is set by GetAreas only
ETABS__init__ == [client |-> None, model |-> None, areas |-> None, areas_key_name |-> None]

EtabsInit ==
    /\ session = ETABS__init__
    /\ returned = None

\* ETABS.from_instance(): a new session attached to the running program; the
\* caller has made no call on it yet.
from_instance ==
    \E m \in Models :
        /\ session' = [ETABS__init__ EXCEPT !.client = ETABSObject, !.model = m]
        /\ returned' = None
        /\ UNCHANGED <<vars, jointVars>>

\* session.disconnect()
disconnect ==
    /\ session.client # None
    /\ session' = [session EXCEPT !.client = None]
    /\ UNCHANGED <<returned, vars, jointVars>>

\* session.GetAreas(): without a client a ValueError object is returned (not
\* raised) and nothing is stored.
GetAreas ==
    /\ IF session.client = None
       THEN /\ returned' = [type |-> "ValueError", items |-> <<"ETABS Client not initialized">>]
            /\ UNCHANGED session
       ELSE /\ session' = [session EXCEPT !.areas = GetAreas_dict(session.model),
                                          !.areas_key_name = GetAreas_key_name(session.model)]
            /\ returned' = [type |-> "dict", items |-> GetAreas_dict(session.model)]
    /\ UNCHANGED <<vars, jointVars>>

Init == Idle /\ JointInit /\ EtabsInit

Next ==
    \/ Setup_P_delta
    \/ Call_P_delta
    \/ Setup_H1_interaction
    \/ Call_H1_interaction
    \/ Setup_E3_compression
    \/ Call_E3_compression
    \/ Setup_F6_flexure_minor
    \/ Call_F6_flexure_minor
    \/ Setup_F8_flexure_round_hss
    \/ Call_F8_flexure_round_hss
    \/ Setup_F2_flexure_major
    \/ Call_F2_flexure_major
    \/ Setup_F9_flexure_t_2l
    \/ Call_F9_flexure_t_2l
    \/ Discard

Spec == Init /\ [][Next]_vars

JointNext ==
    \/ New_Joint
    \/ Set_restraint

JointSpec == Init /\ [][JointNext]_allVars

EtabsNext ==
    \/ from_instance
    \/ disconnect
    \/ GetAreas

EtabsSpec == Init /\ [][EtabsNext]_allVars

(***************************************************************************)
(* Claims                                                                  *)
(***************************************************************************)

Returned(fn) == frame.fn = fn /\ ret.status \notin {"none", "pending"}

Ok(fn) == Returned(fn) /\ ret.status = "ok"

Arg(p) == heap[frame.arg[p]]

\* Entry i of argument p, a scalar argument standing for every member.
ArgAt(p, i) == At(Arg(p), i)

Result == heap[ret.ref]

AllPositive(a) == \A i \in 1..Len(a) : a[i].m > 0
AllNegative(a) == \A i \in 1..Len(a) : a[i].m < 0

\* C1: P_delta and H1_interaction return a result for a (non-empty) batch
\* exactly when every Pr entry is strictly positive or every Pr entry is
\* strictly negative; any other batch (mixed signs, a zero entry) fails the
\* assertion and no result is returned.
C1_SignPrecondition ==
    \A fn \in {"P_delta", "H1_interaction"} :
        Returned(fn) =>
            /\ ret.status = "ok" <=> (AllPositive(Arg("Pr")) \/ AllNegative(Arg("Pr")))
            /\ ret.status # "ok" => ret.status = "AssertionError" /\ ret.ref = 0

C1_Witness ==
    /\ Returned("P_delta")
    /\ ret.status = "AssertionError"
    /\ Len(Arg("Pr")) = 2
    /\ Arg("Pr")[1].m > 0
    /\ Arg("Pr")[2].m < 0

C2_BelowLimit(i) ==
    FLt(FDiv(ArgAt("D", i), ArgAt("t", i)),
        FDiv(FMul(Flt(45, -2), ArgAt("E", i)), ArgAt("Fy", i)))

\* C2: F8_flexure_round_hss returns a result exactly when every member has
\* D/t strictly below 0.45*E/Fy; one member at the limit or above it makes
\* the whole call fail its assertion, with no result.
C2_ApplicabilityLimit ==
    Returned("F8_flexure_round_hss") =>
        /\ ret.status = "ok" <=> \A i \in 1..Len(Arg("D")) : C2_BelowLimit(i)
        /\ ret.status # "ok" => ret.status = "AssertionError" /\ ret.ref = 0

C2_Witness ==
    /\ Returned("F8_flexure_round_hss")
    /\ ret.status = "AssertionError"
    /\ Len(Arg("D")) = 2
    /\ C2_BelowLimit(1)
    /\ FDiv(Arg("D")[2], Arg("t")[2]) = FDiv(FMul(Flt(45, -2), E_steel), Fy_50)

\* The arrays the caller passed to F2_flexure_major.
C3_Passed == SubSeq(heap, 1, Cardinality(DOMAIN frame.arg) - 1)

\* The same values passed as a props bundle.
C3_Bundle == F2_flexure_major(C3_Passed, [frame.arg EXCEPT !.props = 1])

\* C3 (as claimed): a call of F2_flexure_major with explicit parameters ends
\* as the call with a props bundle of the same values ends: both return the
\* same phiMnx, or both are rejected.
C3_ExplicitSameAsBundle ==
    (Returned("F2_flexure_major") /\ frame.arg.props = 0) =>
        \/ /\ ret.status = "ok"
           /\ C3_Bundle.status = "ok"
           /\ Result = C3_Bundle.heap[C3_Bundle.ref]
        \/ /\ ret.status # "ok"
           /\ C3_Bundle.status # "ok"

C4_DCR(Pr, Pc, Mrx, Mcx, Mry, Mcy) ==
    LET ratio == FDiv(FAbs(Pr), Pc)
        M     == FAdd(FDiv(FAbs(Mrx), Mcx), FDiv(FAbs(Mry), Mcy))
    IN  IF FGe(ratio, Flt(2, -1))
        THEN FAdd(ratio, FMul(FDiv(Flt(8, 0), Flt(9, 0)), M))
        ELSE FAdd(FDiv(ratio, Flt(2, 0)), M)

\* C4: every member of an accepted H1_interaction batch gets
\* DCR = |Pr|/Pc + 8/9 (|Mrx|/Mcx + |Mry|/Mcy) when |Pr|/Pc >= 0.2 (0.2
\* included) and DCR = |Pr|/Pc/2 + (|Mrx|/Mcx + |Mry|/Mcy) otherwise; the
\* member Pr=100, Pc=400, Mrx=50, Mcx=200, Mry=10, Mcy=80 gets
\* 0.25 + 8/9 * 0.375.
C4_InteractionFormula ==
    Ok("H1_interaction") =>
        \A i \in 1..Len(Result) :
            /\ Result[i] = C4_DCR(ArgAt("Pr", i), ArgAt("Pc", i), ArgAt("Mrx", i),
                                  ArgAt("Mcx", i), ArgAt("Mry", i), ArgAt("Mcy", i))
            /\ (ArgAt("Pr", i) = Flt(100, 0) /\ ArgAt("Mrx", i) = Flt(50, 0)) =>
                   Result[i] = FAdd(Flt(25, -2),
                                    FMul(FDiv(Flt(8, 0), Flt(9, 0)), Flt(375, -3)))

C4_Witness ==
    /\ Ok("H1_interaction")
    /\ Len(Result) = 2
    /\ Arg("Pr")[1] = Flt(80, 0)
    /\ Arg("Pr")[2] = Flt(100, 0)
    /\ Arg("Mrx")[2] = Flt(50, 0)
    /\ Result[2] = Flt(5833, -4)

C5_AtThreshold(i) ==
    FDiv(ArgAt("D", i), ArgAt("t", i))
        = FDiv(FMul(Flt(7, -2), ArgAt("E", i)), ArgAt("Fy", i))

\* C5 (as claimed): an accepted member of F8_flexure_round_hss whose D/t is
\* exactly the compact limit 0.07*E/Fy gets Mn = Mp = Fy*Z, that is
\* phiMn = 0.9*Fy*Z, whatever S and Z are.
C5_ThresholdIsPlastic ==
    Ok("F8_flexure_round_hss") =>
        \A i \in 1..Len(Result) :
            C5_AtThreshold(i) =>
                Result[i] = FMul(Flt(9, -1), FMul(ArgAt("Fy", i), ArgAt("Z", i)))

\* The values F2_flexure_major works on for member i: the arrays read from
\* the props bundle, and c, Lp and Lr computed from them.
C6_c(i) ==
    F2_c(Sc(ArgAt("section_type", i)), Sc(ArgAt("ho", i)), Sc(ArgAt("Iy", i)),
         Sc(ArgAt("Cw", i)))

C6_Mp(i) == FMul(ArgAt("Fy", i), ArgAt("Zx", i))

C6_Lp(i) == F2_Lp(Sc(ArgAt("ry", i)), Sc(ArgAt("Fy", i)), Sc(ArgAt("E", i)))[1]

C6_Lr(i) ==
    F2_Lr(Sc(ArgAt("rts", i)), Sc(ArgAt("J", i)), C6_c(i), Sc(ArgAt("Sx", i)),
          Sc(ArgAt("ho", i)), Sc(ArgAt("Fy", i)), Sc(ArgAt("E", i)))[1]

C6_Elastic(i) ==
    F2_Mn_elastic(Sc(ArgAt("Cb", i)), Sc(ArgAt("Lb", i)), Sc(ArgAt("rts", i)),
                  Sc(ArgAt("J", i)), C6_c(i), Sc(ArgAt("Sx", i)), Sc(ArgAt("ho", i)),
                  Sc(ArgAt("E", i)))[1]

\* Mp - (Mp - 0.7*Fy*Sx)*(Lb-Lp)/(Lr-Lp)
C6_Interpolated(i) ==
    FSub(C6_Mp(i),
         FDiv(FMul(FSub(C6_Mp(i), FMul(FMul(Flt(7, -1), ArgAt("Fy", i)), ArgAt("Sx", i))),
                   FSub(ArgAt("Lb", i), C6_Lp(i))),
              FSub(C6_Lr(i), C6_Lp(i))))

\* Mn by zone, the interpolated moment taken `factor` times.
C6_Mn(i, factor) ==
    IF FLe(ArgAt("Lb", i), C6_Lp(i)) THEN C6_Mp(i)
    ELSE IF FLe(ArgAt("Lb", i), C6_Lr(i))
         THEN FMin(C6_Mp(i), FMul(factor, C6_Interpolated(i)))
         ELSE FMin(C6_Mp(i), C6_Elastic(i))

\* C6 (as claimed): F2_flexure_major returns 0.9*Mn with Mn = Mp for
\* Lb <= Lp, Mn = min(Mp, Mp - (Mp - 0.7*Fy*Sx)*(Lb-Lp)/(Lr-Lp)) for
\* Lp < Lb <= Lr and Mn = min(Mp, elastic moment) for Lb > Lr, whatever Cb is.
C6_ZonesWithoutCb ==
    Ok("F2_flexure_major") =>
        \A i \in 1..Len(Result) : Result[i] = FMul(Flt(9, -1), C6_Mn(i, One))

\* C6 (amended): every call of F2_flexure_major that returns gives 0.9*Mn
\* with Mn = Mp for Lb <= Lp,
\* Mn = min(Mp, Cb*(Mp - (Mp - 0.7*Fy*Sx)*(Lb-Lp)/(Lr-Lp))) for Lp < Lb <= Lr
\* and Mn = min(Mp, elastic moment) for Lb > Lr.
C6_ZonesWithCb ==
    Ok("F2_flexure_major") =>
        \A i \in 1..Len(Result) : Result[i] = FMul(Flt(9, -1), C6_Mn(i, ArgAt("Cb", i)))

C6_Witness ==
    /\ Ok("F2_flexure_major")
    /\ Len(Result) = 2
    /\ Arg("Cb")[1] = Flt(15, -1)
    /\ Arg("Lb")[1] = C6_Lp(1)
    /\ Result[1] = FMul(Flt(9, -1), C6_Mp(1))
    /\ FGt(Arg("Lb")[2], C6_Lp(2))
    /\ FLe(Arg("Lb")[2], C6_Lr(2))
    /\ FLt(Result[2], FMul(Flt(9, -1), C6_Mp(2)))
    /\ FGt(Result[2], FMul(Flt(9, -1), FMin(C6_Mp(2), C6_Interpolated(2))))

\* Fe and Fcr of the members of the batch.
C7_Fe == E3_Fe(Arg("E"), Arg("Lb"), E3_r_min(Arg("rx"), Arg("ry")))

C7_Fcr == E3_stress(Arg("rx"), Arg("ry"), Arg("Lb"), Arg("Fy"), Arg("E"))

\* C7: in E3_compression the critical stress of every member is at most Fy,
\* in the inelastic and in the elastic branch, and phiPn <= 0.9*Fy*A.
C7_FcrAtMostFy ==
    Ok("E3_compression") =>
        \A i \in 1..Len(Result) :
            /\ FLe(C7_Fcr[i], ArgAt("Fy", i))
            /\ FLe(Result[i], FMul(FMul(Flt(9, -1), ArgAt("Fy", i)), ArgAt("A", i)))

C7_Witness ==
    /\ Ok("E3_compression")
    /\ Len(Result) = 2
    /\ FLe(FDiv(ArgAt("Fy", 1), C7_Fe[1]), Flt(225, -2))
    /\ FGt(FDiv(ArgAt("Fy", 2), C7_Fe[2]), Flt(225, -2))
    /\ FLt(C7_Fcr[1], ArgAt("Fy", 1))
    /\ FLt(C7_Fcr[2], ArgAt("Fy", 2))

C8_SameSection(i, j) ==
    \A p \in {"section_type", "ho", "J", "Sx", "Zx", "ry", "rts", "Iy", "Cw", "Fy", "Cb",
              "E"} : ArgAt(p, i) = ArgAt(p, j)

\* C8: for two members of a batch of F2_flexure_major with the same section,
\* material and Cb, the one with the shorter (or equal) unbraced length has
\* the larger (or equal) capacity, also across Lp and Lr.
C8_NonIncreasingInLb ==
    Ok("F2_flexure_major") =>
        \A i, j \in 1..Len(Result) :
            (C8_SameSection(i, j) /\ FLe(ArgAt("Lb", i), ArgAt("Lb", j))) =>
                FGe(Result[i], Result[j])

C8_Witness ==
    /\ Ok("F2_flexure_major")
    /\ Len(Result) = 2
    /\ C8_SameSection(1, 2)
    /\ Arg("Lb")[1] = C6_Lr(1)
    /\ FGt(Arg("Lb")[2], C6_Lr(2))
    /\ FGt(Result[1], Result[2])

\* The check called fn, on memory h with the parameters bound as f.
Apply(fn, h, f) ==
    CASE fn = "P_delta" -> P_delta(h, f)
      [] fn = "H1_interaction" -> H1_interaction(h, f)
      [] fn = "E3_compression" -> E3_compression(h, f)
      [] fn = "F2_flexure_major" -> F2_flexure_major(h, f)
      [] fn = "F6_flexure_minor" -> F6_flexure_minor(h, f)
      [] fn = "F8_flexure_round_hss" -> F8_flexure_round_hss(h, f)
      [] fn = "F9_flexure_t_2l" -> F9_flexure_t_2l(h, f)

\* The arrays of member i alone: entry i of every array, scalars as they are.
Alone(h, i) == [k \in 1..Len(h) |-> IF Len(h[k]) = 1 THEN h[k] ELSE <<h[k][i]>>]

\* The outcome of the call in progress made with member i alone.
C9_Alone(i) == Apply(frame.fn, Alone(heap, i), frame.arg)

\* C9: when a batch call of any check returns, entry i of the result is the
\* result of the call made with member i alone: no other member of the batch
\* has a part in it.
C9_MembersIndependent ==
    \A fn \in {"P_delta", "H1_interaction", "E3_compression", "F2_flexure_major",
               "F6_flexure_minor", "F8_flexure_round_hss", "F9_flexure_t_2l"} :
        Ok(fn) =>
            \A i \in 1..Len(Result) :
                /\ C9_Alone(i).status = "ok"
                /\ C9_Alone(i).heap[C9_Alone(i).ref] = <<Result[i]>>

C9_Witness ==
    /\ Ok("E3_compression")
    /\ Len(Result) = 2
    /\ FLt(E3_r_min(Arg("rx"), Arg("ry"))[1], E3_r_min(Arg("rx"), Arg("ry"))[2])
    /\ Result[1] # Result[2]
    /\ C9_Alone(2).heap[C9_Alone(2).ref] = <<Result[2]>>

\* C10: no call writes to an array of the caller: every object that exists
\* when the call starts holds the same values when it ends, whether the call
\* returns or raises, and a returned array is an object that did not exist
\* before the call.
C10_ArgumentsUntouched ==
    [][ret.status = "pending" =>
          /\ \A id \in 1..Len(heap) : heap'[id] = heap[id]
          /\ ret'.status = "ok" => ret'.ref > Len(heap)]_vars

C10_Witness ==
    /\ Ok("P_delta")
    /\ AllNegative(Arg("Pr"))
    /\ AllPositive(heap[ret.ref - 1])

\* A step that runs the body of F9_flexure_t_2l.
C11_Runs == ret.status = "pending" /\ frame.fn = "F9_flexure_t_2l"

\* C11: every call of F9_flexure_t_2l, the first and every later one, writes
\* the unverified-provision warning and then returns a value for every member.
C11_WarnsEveryCall ==
    [][C11_Runs =>
          /\ stderr' = Append(stderr, F9_message)
          /\ ret'.status = "ok"
          /\ Len(heap'[ret'.ref]) = Len(heap[frame.arg["Lb"]])]_vars

\* The arrays passed to E3_compression, one entry per member.
C12_Arrays == {Arg("A"), Arg("rx"), Arg("ry"), Arg("Lb")}

\* C12: a call of E3_compression whose arrays do not all have the same length
\* is rejected with an error and returns no result.
C12_MismatchRejected ==
    (Returned("E3_compression") /\ \E a, b \in C12_Arrays : Len(a) # Len(b))
        => ret.status = "ValueError"

\* Yielding and lateral-torsional buckling moments of the call's members.
C13_Mp == F9_Mp(Arg("stem_tension"), Arg("Sx"), Arg("Zx"), Arg("Fy"))

C13_Mcr ==
    F9_Mcr(F9_B(Arg("stem_tension"), Arg("d"), Arg("Lb"), Arg("Iy"), Arg("J")),
           Arg("Lb"), Arg("Iy"), Arg("J"), Arg("E"), Arg("G"))

C13_Mn_tension(i) == FMin(At(C13_Mp, i), At(C13_Mcr, i))

C13_Compact(i) == FLe(ArgAt("lambda_f", i), At(F9_lambda_pf(Arg("Fy"), Arg("E")), i))

\* Flange local buckling: unbounded for a compact flange.
C13_Mn_flb(i) ==
    IF C13_Compact(i)
    THEN Inf
    ELSE At(F9_Mn_flb(C13_Mp, Arg("Sx"), VDiv(Arg("Iy"), Arg("y")), Arg("lambda_f"),
                      F9_lambda_pf(Arg("Fy"), Arg("E")), F9_lambda_rf(Arg("Fy"), Arg("E")),
                      Arg("Fy"), Arg("E")), i)

\* Stem local buckling: unbounded for a stem in tension.
C13_Mn_slb(i) ==
    IF ArgAt("stem_tension", i)
    THEN Inf
    ELSE At(F9_Mn_slb(Arg("d"), Arg("tw"), Arg("Sx"), Arg("Fy"), Arg("E")), i)

C13_Nine(x) == FMul(Flt(9, -1), x)

\* C13: F9_flexure_t_2l returns, per member, 0.9 times the smaller of
\* min(Mp, Mcr) and min(Mn_flb, Mn_slb'), Mn_slb' being unbounded for a stem
\* in tension and Mn_flb unbounded for a compact flange; so a member with the
\* stem in tension and a compact flange gets 0.9 * min(Mp, Mcr).
C13_Combination ==
    Ok("F9_flexure_t_2l") =>
        \A i \in 1..Len(Result) :
            /\ Result[i] = C13_Nine(FMin(C13_Mn_tension(i),
                                         FMin(C13_Mn_flb(i), C13_Mn_slb(i))))
            /\ (ArgAt("stem_tension", i) /\ C13_Compact(i))
                   => Result[i] = C13_Nine(C13_Mn_tension(i))

\* A batch with a tension-stem, compact-flange member, whose stem buckling
\* moment is below min(Mp, Mcr) and does not govern, next to a member whose
\* local buckling governs.
C13_Witness ==
    /\ Ok("F9_flexure_t_2l")
    /\ Len(Result) = 2
    /\ ArgAt("stem_tension", 1) /\ C13_Compact(1)
    /\ FLt(At(F9_Mn_slb(Arg("d"), Arg("tw"), Arg("Sx"), Arg("Fy"), Arg("E")), 1),
           C13_Mn_tension(1))
    /\ Result[1] = C13_Nine(C13_Mn_tension(1))
    /\ FLt(Result[2], C13_Nine(C13_Mn_tension(2)))

\* The stored restraint is None or has exactly 6 entries.
C14_SixOrNone == joint.restraint = None \/ Len(joint.restraint.items) = 6

\* What an assignment of the value `assigned'` does to the stored restraint.
C14_Assignment ==
    CASE assigned'.type \in {"tuple", "list"} /\ Len(assigned'.items) = 3 ->
           /\ raised' = "none"
           /\ joint'.restraint.items = assigned'.items \o <<FALSE, FALSE, FALSE>>
      [] assigned'.type \in {"tuple", "list"} /\ Len(assigned'.items) = 6 ->
           /\ raised' = "none"
           /\ joint'.restraint = assigned'
      [] OTHER ->
           /\ raised' = "ValueError"
           /\ joint'.restraint = joint.restraint

C15_Got == returned.type = "dict"

C15_N == session.model.NumberNames

C15_PD(i) == session.model.PointDelimiter[i + 1]

C15_LastPoint == Len(session.model.PointNames) - 1

\* The delimiters increase strictly and end at the last point index.
C15_WellFormed ==
    /\ C15_N >= 1
    /\ \A i \in 1..(C15_N - 1) : C15_PD(i - 1) < C15_PD(i)
    /\ C15_PD(C15_N - 1) = C15_LastPoint

\* First point index of area i.
C15_First(i) == IF i = 0 THEN 0 ELSE C15_PD(i - 1) + 1

\* The point of index k as GetAllAreas lists it.
C15_Point(k) ==
    [name |-> session.model.PointNames[k + 1],
     x |-> session.model.PointX[k + 1],
     y |-> session.model.PointY[k + 1],
     z |-> session.model.PointZ[k + 1]]

\* The j-th point (from 1) of area i in the mapping returned.
C15_AreaPoint(i, j) ==
    [name |-> returned.items[i].points[j].name,
     x |-> returned.items[i].points[j].x,
     y |-> returned.items[i].points[j].y,
     z |-> returned.items[i].points[j].z]

\* C15: for N areas and strictly increasing delimiters ending at the last
\* point index, GetAreas returns a mapping with exactly the keys 0..N-1 whose
\* area i holds, in order, the points of indices PointDelimiter[i-1]+1 ..
\* PointDelimiter[i] (from 0 for area 0); every point is in exactly one area,
\* and areas_key_name has the same keys.
C15_AreasPartitionPoints ==
    (C15_Got /\ C15_WellFormed) =>
        /\ DOMAIN returned.items = 0..(C15_N - 1)
        /\ DOMAIN session.areas_key_name = 0..(C15_N - 1)
        /\ session.areas = returned.items
        /\ \A i \in 0..(C15_N - 1) :
               /\ Len(returned.items[i].points) = C15_PD(i) - C15_First(i) + 1
               /\ \A j \in 1..Len(returned.items[i].points) :
                      C15_AreaPoint(i, j) = C15_Point(C15_First(i) + j - 1)
        /\ \A k \in 0..C15_LastPoint :
               Cardinality({<<i, j>> \in (0..(C15_N - 1)) \X (1..(C15_LastPoint + 1)) :
                               /\ j <= Len(returned.items[i].points)
                               /\ returned.items[i].points[j].name = C15_Point(k).name}) = 1

\* Three areas of one, two and one points.
C15_Witness ==
    /\ C15_Got
    /\ C15_WellFormed
    /\ session.model.PointDelimiter = <<0, 2, 3>>
    /\ Len(returned.items[1].points) = 2
    /\ returned.items[1].points[1].name = "2"
    /\ returned.items[2].points[1].name = "4"

====
